---- MODULE Spec2Model ----
(***************************************************************************)
(* Model of the transaction acquisition engine of israel-nadlan            *)
(* (src/scraper.py): get_data / fetch_nadlan_data, the synthetic generator *)
(* generate_mock_data and the live extraction of nadlan.gov.il.            *)
(*                                                                         *)
(* Representation.                                                         *)
(*  - A Python str is a sequence of one-character strings, so that         *)
(*    strftime, isdigit, replace, lstrip, int() and float() are computed   *)
(*    character by character.                                              *)
(*  - A datetime.date is the number of days since 1 January EpochYear.     *)
(*  - Rooms (a float in steps of 0.5 in the generator, any decimal text on *)
(*    the live page) is kept in tenths: 3.5 rooms is 35.                   *)
(*  - The generator's float price is kept exactly, in units of 1/200       *)
(*    (share is a whole number of hundredths, the outlier shock halves or  *)
(*    doubles).                                                            *)
(*  - None is the string "None"; Hebrew literals are transliterated.       *)
(***************************************************************************)
EXTENDS Integers, Sequences, FiniteSets, TLC

\* ----------------------------------------------------------------- bounds
\* Largest num_records the generator draws here (the code draws 100..300).
MaxRecords == 2
\* Largest number of <tr> rows the results table holds.
MaxRows == 2
\* Largest batch handed to the outlier step in SpecOutlier.
MaxBatch == 7

\* ------------------------------------------------------ program constants
DefaultMinRooms == 0
DefaultMaxRooms == 100
DefaultMinFloor == -10
DefaultMaxFloor == 200
DefaultMinSqm == 0
DefaultMaxSqm == 10000
BasePrice == 1200000
PricePerRoom == 200000
PriceNoise == 150000
SqmBase == 40
SqmPerRoom == 20
MinRowCells == 7
SigmaFactor == 2
\* Scale of the Rooms column of this model (tenths of a room).
RoomsScale == 10
\* Day 0 of the model's calendar is 1 January of this year.
EpochYear == 2023

None == "None"
AllNeighborhoods == "kol hashchunot"
AssetType == "dira"
LivePlatform == "Nadlan.gov.il"

\* ------------------------------------------------------------------ text
Digits == <<"0", "1", "2", "3", "4", "5", "6", "7", "8", "9">>
DigitChars == {Digits[i] : i \in 1..10}
DigitValue(c) == (CHOOSE i \in 1..10 : Digits[i] = c) - 1

\* str.isdigit(): non-empty and every character a digit.
IsDigit(s) == Len(s) > 0 /\ \A i \in 1..Len(s) : s[i] \in DigitChars

\* s.replace(ch, ''): every occurrence removed.
RemoveAll(s, ch) == SelectSeq(s, LAMBDA c : c # ch)

\* s.replace(ch, '', 1): the first occurrence removed.
RemoveFirst(s, ch) ==
  IF \E i \in 1..Len(s) : s[i] = ch
  THEN LET k == CHOOSE i \in 1..Len(s) : s[i] = ch /\ \A j \in 1..(i - 1) : s[j] # ch
       IN  SubSeq(s, 1, k - 1) \o SubSeq(s, k + 1, Len(s))
  ELSE s

\* s.lstrip(ch): every leading occurrence removed.
RECURSIVE LStrip(_, _)
LStrip(s, ch) == IF Len(s) > 0 /\ s[1] = ch THEN LStrip(Tail(s), ch) ELSE s

\* The value of a string of digits.
RECURSIVE DigitsToInt(_)
DigitsToInt(s) ==
  IF Len(s) = 0 THEN 0
  ELSE 10 * DigitsToInt(SubSeq(s, 1, Len(s) - 1)) + DigitValue(s[Len(s)])

\* Zero-padded decimal of width w (the %d, %m and %Y of strftime).
RECURSIVE Padded(_, _)
Padded(n, w) == IF w = 0 THEN <<>> ELSE Padded(n \div 10, w - 1) \o <<Digits[(n % 10) + 1]>>

\* ----------------------------------------------------------------- dates
IsLeap(y) == (y % 4 = 0 /\ y % 100 # 0) \/ y % 400 = 0
DaysInMonth(y, m) ==
  IF m = 2 THEN (IF IsLeap(y) THEN 29 ELSE 28)
  ELSE IF m \in {4, 6, 9, 11} THEN 30 ELSE 31
DaysInYear(y) == IF IsLeap(y) THEN 366 ELSE 365

\* The calendar date <<day, month, year>> of a day number, walking from the epoch.
RECURSIVE FromOrdinal(_, _, _)
FromOrdinal(n, y, m) ==
  IF n >= DaysInYear(y) /\ m = 1 THEN FromOrdinal(n - DaysInYear(y), y + 1, 1)
  ELSE IF n >= DaysInMonth(y, m) THEN FromOrdinal(n - DaysInMonth(y, m), y, m + 1)
  ELSE <<n + 1, m, y>>

RECURSIVE DaysBeforeYear(_)
DaysBeforeYear(y) == IF y <= EpochYear THEN 0 ELSE DaysInYear(y - 1) + DaysBeforeYear(y - 1)
RECURSIVE DaysBeforeMonth(_, _)
DaysBeforeMonth(y, m) == IF m <= 1 THEN 0 ELSE DaysInMonth(y, m - 1) + DaysBeforeMonth(y, m - 1)

\* d.strftime("%d/%m/%Y")
strftime(d) ==
  LET dmy == FromOrdinal(d, EpochYear, 1)
  IN  Padded(dmy[1], 2) \o <<"/">> \o Padded(dmy[2], 2) \o <<"/">> \o Padded(dmy[3], 4)

\* pd.to_datetime(s, format='%d/%m/%Y'), as a day number.
to_datetime(s) ==
  LET d == DigitsToInt(SubSeq(s, 1, 2))
      m == DigitsToInt(SubSeq(s, 4, 5))
      y == DigitsToInt(SubSeq(s, 7, 10))
  IN  DaysBeforeYear(y) + DaysBeforeMonth(y, m) + (d - 1)


\* ------------------------------------------------- the outlier arithmetic
(***************************************************************************)
(* mean - 2*std <= x <= mean + 2*std over a column of n values with sum S  *)
(* and sample standard deviation std (pandas, ddof = 1) is, exactly,       *)
(*     (n*x - S)^2 * (n - 1) <= 4 * SUM_i (n*x_i - S)^2.                   *)
(* The squares exceed TLC's 32-bit integers for real prices, so they are   *)
(* carried as three-limb numbers <<c2, c1, c0>> in base WideBase.          *)
(***************************************************************************)
WideBase == 1000
Abs(a) == IF a < 0 THEN -a ELSE a
WideSq(a) ==
  LET hi == Abs(a) \div WideBase
      lo == Abs(a) % WideBase
  IN  <<hi * hi, 2 * hi * lo, lo * lo>>
WideAdd(u, v) == <<u[1] + v[1], u[2] + v[2], u[3] + v[3]>>
WideScale(k, u) == <<k * u[1], k * u[2], k * u[3]>>
WideNorm(u) ==
  LET c0 == u[3] % WideBase
      k1 == u[2] + (u[3] \div WideBase)
      c1 == k1 % WideBase
      c2 == u[1] + (k1 \div WideBase)
  IN  <<c2, c1, c0>>
WideLeq(u, v) ==
  LET a == WideNorm(u)
      b == WideNorm(v)
  IN  \/ a[1] < b[1]
      \/ a[1] = b[1] /\ a[2] < b[2]
      \/ a[1] = b[1] /\ a[2] = b[2] /\ a[3] <= b[3]

RECURSIVE SumSeq(_)
SumSeq(xs) == IF Len(xs) = 0 THEN 0 ELSE Head(xs) + SumSeq(Tail(xs))

\* SUM_i (n*x_i - S)^2, wide.
RECURSIVE SumSqDev(_, _, _)
SumSqDev(xs, n, S) ==
  IF Len(xs) = 0 THEN <<0, 0, 0>>
  ELSE WideAdd(WideSq(n * Head(xs) - S), SumSqDev(Tail(xs), n, S))

\* mean - 2*std <= x <= mean + 2*std for the column xs. With one value std is
\* NaN (with none, mean is NaN too) and every comparison with NaN is False.
Within2Sigma(x, xs) ==
  LET n == Len(xs)
      S == SumSeq(xs)
  IN  /\ n > 1
      /\ WideLeq(WideScale(n - 1, WideSq(n * x - S)),
                 WideScale(SigmaFactor * SigmaFactor, SumSqDev(xs, n, S)))

\* The Price/Sqm column of a table.
Column(df) == [i \in 1..Len(df) |-> df[i].PriceSqm]

\* A plausible slip: only the upper bound, mean + 2*std, is tested.
OutlierFilterUpperOnly(df) ==
  SelectSeq(df, LAMBDA r : /\ Len(df) > 1
                           /\ \/ Len(df) * r.PriceSqm <= SumSeq(Column(df))
                              \/ Within2Sigma(r.PriceSqm, Column(df)))

\* mean = df['Price/Sqm'].mean(); std = df['Price/Sqm'].std();
\* df = df[(df['Price/Sqm'] >= mean - 2*std) & (df['Price/Sqm'] <= mean + 2*std)]
OutlierFilter(df) == SelectSeq(df, LAMBDA r : Within2Sigma(r.PriceSqm, Column(df)))

\* ------------------------------------------------------- search criteria
\* get_neighborhoods(city) of neighborhoods.py: the catalog of valid names.
Cities == {"Beer Sheva", "Haifa"}
get_neighborhoods(c) ==
  IF c = "Beer Sheva" THEN {AllNeighborhoods, "Ramot", "Neve Zeev"}
  ELSE IF c = "Haifa" THEN {AllNeighborhoods, "Carmel"}
  ELSE {}

\* The neighborhood argument: absent, the "all" sentinel, or a name (valid for
\* Beer Sheva, unknown in Haifa).
Neighborhoods == {None, AllNeighborhoods, "Ramot"}

\* (start_date, end_date) pairs: one day, a range over the new year, and a
\* reversed range. Day 363 is 30/12/2023, day 366 is 02/01/2024.
DateRanges == {<<363, 363>>, <<363, 366>>, <<366, 363>>}

\* The six range arguments; rooms in tenths.
DefaultFilters ==
  [min_rooms |-> DefaultMinRooms * RoomsScale, max_rooms |-> DefaultMaxRooms * RoomsScale,
   min_floor |-> DefaultMinFloor, max_floor |-> DefaultMaxFloor,
   min_sqm |-> DefaultMinSqm, max_sqm |-> DefaultMaxSqm]
FilterSettings ==
  { DefaultFilters,
    [DefaultFilters EXCEPT !.min_rooms = 30, !.max_rooms = 30],
    [DefaultFilters EXCEPT !.min_floor = 0, !.max_floor = 10, !.min_sqm = 60, !.max_sqm = 105] }

\* ---------------------------------------------------- synthetic generator
\* The random outcomes of one loop iteration, lines 181-230, but for random_days:
\* rooms (tenths), floor, the sqm noise, share (percent), the price noise, the
\* outlier shock, the placeholder neighborhood and the platform.
MockSamples ==
  { [rooms |-> 30, floor |-> 2, sqm_noise |-> 0, share |-> 100, price_noise |-> 0,
     shock |-> "none", placeholder |-> "shchuna A", platform |-> "Yad2"],
    [rooms |-> 30, floor |-> 2, sqm_noise |-> 10, share |-> 100, price_noise |-> 0,
     shock |-> "none", placeholder |-> "shchuna B", platform |-> "Madlan"],
    [rooms |-> 10, floor |-> -1, sqm_noise |-> -7, share |-> 33, price_noise |-> 1,
     shock |-> "none", placeholder |-> "shchuna Ramot", platform |-> "Komo"],
    [rooms |-> 35, floor |-> 25, sqm_noise |-> 30, share |-> 100, price_noise |-> -PriceNoise,
     shock |-> "double", placeholder |-> "shchuna A", platform |-> "Broker"],
    [rooms |-> 30, floor |-> 2, sqm_noise |-> 0, share |-> 100, price_noise |-> 1,
     shock |-> "half", placeholder |-> "shchuna B", platform |-> "Yad2"] }

\* random_days = random.randrange(delta.days + 1): the first or the last day.
RandomDays(delta) == {0, delta}

\* sqm = 40 + (rooms * 20) + random.randint(-10, 30)
MockSqm(w) == SqmBase + (w.rooms * SqmPerRoom) \div RoomsScale + w.sqm_noise

\* price, in units of 1/200:
\* price = (base_price + random.randint(-150000, 150000)) * share, then the shock.
MockPrice200(w) ==
  LET base_price == BasePrice + (w.rooms * PricePerRoom) \div RoomsScale
      shock2 == IF w.shock = "half" THEN 1 ELSE IF w.shock = "double" THEN 4 ELSE 2
  IN  (base_price + w.price_noise) * w.share * shock2

\* A plausible slip: Price/Sqm taken before the outlier shock is applied.
MockPriceSqmBeforeShock(w) ==
  ((BasePrice + (w.rooms * PricePerRoom) \div RoomsScale + w.price_noise) * w.share)
    \div (100 * MockSqm(w))
\* price_per_sqm = int(price / sqm)
MockPriceSqm(w) == MockPrice200(w) \div (200 * MockSqm(w))

\* The three range tests and the share test of lines 191-204: is the candidate kept?
MockAccepts(w, f, exclude) ==
  /\ f.min_rooms <= w.rooms /\ w.rooms <= f.max_rooms
  /\ f.min_floor <= w.floor /\ w.floor <= f.max_floor
  /\ f.min_sqm <= MockSqm(w) /\ MockSqm(w) <= f.max_sqm
  /\ ~(exclude /\ w.share < 100)

\* A plausible slip: the record carries a fixed city, not the requested one.
MockRecordFixedCity(w, days, c, start, nb) ==
  [Date |-> strftime(start + days), City |-> "Beer Sheva",
   Neighborhood |-> IF nb # None /\ nb # AllNeighborhoods THEN nb ELSE w.placeholder,
   AssetType |-> AssetType, Rooms |-> w.rooms, Floor |-> w.floor, Sqm |-> MockSqm(w),
   Price |-> MockPrice200(w) \div 200, PriceSqm |-> MockPriceSqm(w),
   Share |-> w.share, Platform |-> w.platform]
\* The dict appended at lines 219-231.
MockRecord(w, days, c, start, nb) ==
  [Date |-> strftime(start + days), City |-> c,
   Neighborhood |-> IF nb # None /\ nb # AllNeighborhoods THEN nb ELSE w.placeholder,
   AssetType |-> AssetType, Rooms |-> w.rooms, Floor |-> w.floor, Sqm |-> MockSqm(w),
   Price |-> MockPrice200(w) \div 200, PriceSqm |-> MockPriceSqm(w),
   Share |-> w.share, Platform |-> w.platform]

\* df.sort_values('DateObj'): the orders of the rows that are ascending in the
\* parsed date. pandas' default sort is not stable, so rows of one date may come
\* out in any order.
RowOrders(n) == {f \in [1..n -> 1..n] : \A a, b \in 1..n : a # b => f[a] # f[b]}
SortedByDateObj(data) ==
  { [k \in 1..Len(data) |-> data[f[k]]] : f \in
      { g \in RowOrders(Len(data)) :
          \A k \in 1..(Len(data) - 1) :
             to_datetime(data[g[k]].Date) <= to_datetime(data[g[k + 1]].Date) } }

\* -------------------------------------------------------- live extraction
\* The cell texts of the <tr> rows the results table may hold. A row is the list
\* txts of its cells' inner texts; <<>> is a row without <td> cells.
TDate1 == <<"3", "0", "/", "1", "2", "/", "2", "0", "2", "3">>
TDate2 == <<"0", "2", "/", "0", "1", "/", "2", "0", "2", "4">>
TAddr == <<"R", "a", "m", "o", "t">>
TType == <<"d">>
TPrice == <<"1", ",", "5", "0", "0", ",", "0", "0", "0">>
PageRows ==
  { <<TDate1, TAddr, TType, <<"3">>, <<"2">>, <<"8", "0">>, TPrice>>,
    <<TDate2, TAddr, TType, <<"3", ".", "5">>, <<"-", "1", "5">>, <<"7", "0">>, TPrice>>,
    <<TDate1, TAddr, TType, <<"4">>, <<"1">>, <<"N", "/", "A">>, TPrice>>,
    <<TDate1, TAddr, TType, <<"3">>, <<"2">>>>,
    <<TDate1, TAddr, TType, <<"3">>, <<"-", "-", "5">>, <<"8", "0">>, TPrice>>,
    <<>> }

\* float(t), in tenths, of a text of digits with at most one '.' and at most one
\* digit after it.
FloatTenths(t) ==
  IF \E k \in 1..Len(t) : t[k] = "."
  THEN LET k == CHOOSE j \in 1..Len(t) : t[j] = "."
       IN  RoomsScale * DigitsToInt(SubSeq(t, 1, k - 1)) + DigitsToInt(SubSeq(t, k + 1, Len(t)))
  ELSE RoomsScale * DigitsToInt(t)

\* row_rooms = float(txts[3]) if txts[3].replace('.', '', 1).isdigit() else 0
row_rooms(txts) == IF IsDigit(RemoveFirst(txts[4], ".")) THEN FloatTenths(txts[4]) ELSE 0

\* int(txts[4]) raises ValueError on more than one leading '-'.
FloorRaises(txts) ==
  IsDigit(LStrip(txts[5], "-")) /\ Len(txts[5]) - Len(LStrip(txts[5], "-")) > 1
\* row_floor = int(txts[4]) if txts[4].lstrip('-').isdigit() else 0
row_floor(txts) ==
  IF IsDigit(LStrip(txts[5], "-"))
  THEN (IF txts[5][1] = "-" THEN -DigitsToInt(LStrip(txts[5], "-")) ELSE DigitsToInt(txts[5]))
  ELSE 0

\* row_sqm = int(txts[5]) if txts[5].isdigit() else 0
row_sqm(txts) == IF IsDigit(txts[6]) THEN DigitsToInt(txts[6]) ELSE 0

\* row_price = int(txts[6].replace(',', '')) if txts[6].replace(',', '').isdigit() else 0
row_price(txts) ==
  IF IsDigit(RemoveAll(txts[7], ",")) THEN DigitsToInt(RemoveAll(txts[7], ",")) ELSE 0

\* row_ppsqm = int(row_price / row_sqm) if row_sqm > 0 else 0
row_ppsqm(txts) == IF row_sqm(txts) > 0 THEN row_price(txts) \div row_sqm(txts) ELSE 0

\* The item of lines 122-134.
RowItem(txts, c) ==
  [Date |-> txts[1], City |-> c, Neighborhood |-> txts[2], AssetType |-> AssetType,
   Rooms |-> row_rooms(txts), Floor |-> row_floor(txts), Sqm |-> row_sqm(txts),
   Price |-> row_price(txts), PriceSqm |-> row_ppsqm(txts),
   Share |-> 100, Platform |-> LivePlatform]

\* The body of the loop over rows, lines 89-138, applied to data: a row without
\* cells or with fewer than 7 is passed over, and so is one whose parse raises.
\* (date_val and price_val of lines 101-103 are computed and never read.)
ParseRow(d, txts, c) ==
  IF Len(txts) = 0 THEN d
  ELSE IF Len(txts) < MinRowCells THEN d
  ELSE IF FloorRaises(txts) THEN d
  ELSE Append(d, RowItem(txts, c))

\* The live filters of lines 156-168 on the table df of the parsed rows.
LiveRangeFilter(df, f) ==
  LET byRooms == IF f.min_rooms > DefaultMinRooms * RoomsScale \/ f.max_rooms < DefaultMaxRooms * RoomsScale
                 THEN SelectSeq(df, LAMBDA r : r.Rooms >= f.min_rooms /\ r.Rooms <= f.max_rooms)
                 ELSE df
      byFloor == IF f.min_floor > DefaultMinFloor \/ f.max_floor < DefaultMaxFloor
                 THEN SelectSeq(byRooms, LAMBDA r : r.Floor >= f.min_floor /\ r.Floor <= f.max_floor)
                 ELSE byRooms
  IN  IF f.min_sqm > DefaultMinSqm \/ f.max_sqm < DefaultMaxSqm
      THEN SelectSeq(byFloor, LAMBDA r : r.Sqm >= f.min_sqm /\ r.Sqm <= f.max_sqm)
      ELSE byFloor

\* if not df.empty and not use_mock_data: the range filters, then the outlier step.
LiveFilter(d, f, exclude) ==
  IF Len(d) = 0 THEN d
  ELSE IF exclude THEN OutlierFilter(LiveRangeFilter(d, f))
  ELSE LiveRangeFilter(d, f)

\* The tables the results page may hold: 1..MaxRows rows.
Pages == UNION {[1..n -> PageRows] : n \in 1..MaxRows}

\* The awaited page interactions of lines 64-82, in order.
InteractSteps ==
  <<"wait_input", "fill", "wait_autocomplete", "click_suggestion", "click_search",
    "wait_results">>
StepIndex(step) == CHOOSE k \in 1..Len(InteractSteps) : InteractSteps[k] = step

\* Lines 233-244 on the sorted table.
MockTable(sorted, exclude) ==
  IF Len(sorted) = 0 THEN sorted
  ELSE IF exclude THEN OutlierFilter(sorted)
  ELSE sorted

\* The Price/Sqm values of the batches of SpecOutlier.
OutlierValues == {10, 11, 60}
Batches == UNION {[1..n -> {[PriceSqm |-> v] : v \in OutlierValues}] : n \in 0..MaxBatch}

\* ------------------------------------------------------------------ state
VARIABLES
  city, start_date, end_date, neighborhood, flt, exclude_abnormal, use_mock_data,
  pc,           \* where the call is
  data,         \* the list of records built so far
  df,           \* the table returned
  num_records,  \* the generator's target count
  iter,         \* the generator's loop counter
  rows,         \* the <tr> rows query_selector_all returned
  idx,          \* the next row of the loop over rows
  playwright,   \* the async_playwright() context: "none", "active", "stopped"
  browser,      \* "none", "open", "closed"
  close_called, \* has browser.close() been awaited
  failed_at,    \* the steps whose await raised, in order
  raised        \* the exception that reached the caller, or "none"

args == <<city, start_date, end_date, neighborhood, flt, exclude_abnormal, use_mock_data>>
mock == <<num_records, iter>>
live == <<rows, idx, playwright, browser, close_called, failed_at>>
vars == <<args, pc, data, df, mock, live, raised>>

Idle ==
  /\ data = <<>> /\ df = <<>>
  /\ num_records = 0 /\ iter = 0
  /\ rows = <<>> /\ idx = 1
  /\ playwright = "none" /\ browser = "none" /\ close_called = FALSE
  /\ failed_at = <<>> /\ raised = "none"

\* A call get_data(city, start, end, neighborhood, ..., exclude_abnormal, use_mock_data).
Init ==
  /\ city \in Cities
  /\ \E r \in DateRanges : start_date = r[1] /\ end_date = r[2]
  /\ neighborhood \in Neighborhoods
  /\ flt \in FilterSettings
  /\ exclude_abnormal \in BOOLEAN
  /\ use_mock_data \in BOOLEAN
  /\ pc = "entry"
  /\ Idle

\* Lines 35-38: data = []; the generator when use_mock_data, else the live path.
Dispatch ==
  /\ pc = "entry"
  /\ data' = <<>>
  /\ pc' = IF use_mock_data THEN "mock_begin" ELSE "launch"
  /\ UNCHANGED <<args, df, mock, live, raised>>

\* Lines 174-176: num_records = random.randint(100, 300), here 1..MaxRecords.
MockBegin ==
  /\ pc = "mock_begin"
  /\ \E n \in 1..MaxRecords : num_records' = n
  /\ iter' = 0
  /\ data' = <<>>
  /\ pc' = "mock_loop"
  /\ UNCHANGED <<args, df, live, raised>>

\* One iteration of the loop of lines 180-231.
MockIterate ==
  /\ pc = "mock_loop"
  /\ iter < num_records
  /\ end_date >= start_date
  /\ \E w \in MockSamples, days \in RandomDays(end_date - start_date) :
       data' = IF MockAccepts(w, flt, exclude_abnormal)
               THEN Append(data, MockRecord(w, days, city, start_date, neighborhood))
               ELSE data
  /\ iter' = iter + 1
  /\ UNCHANGED <<args, pc, df, num_records, live, raised>>

\* Line 181: random.randrange(delta.days + 1) raises ValueError when end < start;
\* nothing catches it on the way to the caller.
MockRaise ==
  /\ pc = "mock_loop"
  /\ iter < num_records
  /\ end_date < start_date
  /\ raised' = "ValueError"
  /\ pc' = "raised"
  /\ UNCHANGED <<args, data, df, mock, live>>

\* Lines 233-244: sort by the parsed date, the outlier step, return.
MockFinish ==
  /\ pc = "mock_loop"
  /\ iter = num_records
  /\ \E sorted \in SortedByDateObj(data) : df' = MockTable(sorted, exclude_abnormal)
  /\ pc' = "returned"
  /\ UNCHANGED <<args, data, mock, live, raised>>

\* Lines 42-46: enter async_playwright() and launch the browser.
Launch ==
  /\ pc = "launch"
  /\ \/ /\ pc' = "outer_except"
        /\ failed_at' = Append(failed_at, "playwright")
        /\ UNCHANGED <<playwright, browser>>
     \/ /\ playwright' = "active"
        /\ pc' = "outer_except"
        /\ failed_at' = Append(failed_at, "launch")
        /\ UNCHANGED browser
     \/ /\ playwright' = "active"
        /\ browser' = "open"
        /\ pc' = "new_context"
        /\ UNCHANGED failed_at
  /\ UNCHANGED <<args, data, df, mock, rows, idx, close_called, raised>>

\* Lines 48-53: browser.new_context(...), context.new_page().
NewContext ==
  /\ pc = "new_context"
  /\ \/ pc' = "goto" /\ UNCHANGED failed_at
     \/ pc' = "outer_except" /\ failed_at' = Append(failed_at, "new_context")
  /\ UNCHANGED <<args, data, df, mock, rows, idx, playwright, browser, close_called, raised>>

\* Line 58: page.goto(url, timeout=60000), outside the inner try.
Goto ==
  /\ pc = "goto"
  /\ \/ pc' = InteractSteps[1] /\ UNCHANGED failed_at
     \/ pc' = "outer_except" /\ failed_at' = Append(failed_at, "goto")
  /\ UNCHANGED <<args, data, df, mock, rows, idx, playwright, browser, close_called, raised>>

\* Lines 64-82: one awaited interaction inside the inner try.
Interact ==
  /\ pc \in {InteractSteps[k] : k \in 1..Len(InteractSteps)}
  /\ \/ /\ pc' = IF StepIndex(pc) < Len(InteractSteps)
                 THEN InteractSteps[StepIndex(pc) + 1] ELSE "query_rows"
        /\ UNCHANGED failed_at
     \/ pc' = "inner_except" /\ failed_at' = Append(failed_at, pc)
  /\ UNCHANGED <<args, data, df, mock, rows, idx, playwright, browser, close_called, raised>>

\* Line 85: rows = await page.query_selector_all('tbody tr').
QueryRows ==
  /\ pc = "query_rows"
  /\ \/ /\ rows' \in Pages
        /\ idx' = 1
        /\ pc' = "row_loop"
        /\ UNCHANGED failed_at
     \/ /\ pc' = "inner_except"
        /\ failed_at' = Append(failed_at, "query_rows")
        /\ UNCHANGED <<rows, idx>>
  /\ UNCHANGED <<args, data, df, mock, playwright, browser, close_called, raised>>

\* Lines 88-138: one row of the loop; reading its cells (lines 89, 93) may raise.
ParseNextRow ==
  /\ pc = "row_loop"
  /\ idx <= Len(rows)
  /\ \/ /\ data' = ParseRow(data, rows[idx], city)
        /\ idx' = idx + 1
        /\ UNCHANGED <<pc, failed_at>>
     \/ /\ pc' = "inner_except"
        /\ failed_at' = Append(failed_at, "row_cells")
        /\ UNCHANGED <<data, idx>>
  /\ UNCHANGED <<args, df, mock, rows, playwright, browser, close_called, raised>>

\* The loop over rows is exhausted.
RowsDone ==
  /\ pc = "row_loop"
  /\ idx > Len(rows)
  /\ pc' = "close"
  /\ UNCHANGED <<args, data, df, mock, live, raised>>

\* A plausible slip: the handler starts over with an empty list.
InnerExceptClearsData ==
  /\ pc = "inner_except"
  /\ pc' = "close"
  /\ data' = <<>>
  /\ UNCHANGED <<args, df, mock, live, raised>>
\* Lines 140-142: except Exception of the inner try: report, go on to line 144.
InnerExcept ==
  /\ pc = "inner_except"
  /\ pc' = "close"
  /\ UNCHANGED <<args, data, df, mock, live, raised>>

\* Line 144: await browser.close(), then the async with block is left.
Close ==
  /\ pc = "close"
  /\ close_called' = TRUE
  /\ browser' = "closed"
  /\ playwright' = "stopped"
  /\ \/ pc' = "filter" /\ UNCHANGED failed_at
     \/ pc' = "outer_except" /\ failed_at' = Append(failed_at, "close")
  /\ UNCHANGED <<args, data, df, mock, rows, idx, raised>>

\* Lines 146-147: the async with block is left by the exception, and
\* except Exception of the outer try reports it.
OuterExcept ==
  /\ pc = "outer_except"
  /\ playwright' = IF playwright = "active" THEN "stopped" ELSE playwright
  /\ pc' = "filter"
  /\ UNCHANGED <<args, data, df, mock, rows, idx, browser, close_called, failed_at, raised>>

\* Lines 149-170: the live filters on the parsed rows, return df.
LiveReturn ==
  /\ pc = "filter"
  /\ df' = LiveFilter(data, flt, exclude_abnormal)
  /\ pc' = "returned"
  /\ UNCHANGED <<args, data, mock, live, raised>>

Next ==
  \/ Dispatch
  \/ MockBegin
  \/ MockIterate
  \/ MockRaise
  \/ MockFinish
  \/ Launch
  \/ NewContext
  \/ Goto
  \/ Interact
  \/ QueryRows
  \/ ParseNextRow
  \/ RowsDone
  \/ InnerExcept
  \/ Close
  \/ OuterExcept
  \/ LiveReturn

Spec == Init /\ [][Next]_vars

\* The outlier step alone (lines 164-168 and 239-242, the same three statements):
\* a table of 0..MaxBatch rows reaches it with exclude_abnormal set.
InitOutlier ==
  /\ city = "Beer Sheva" /\ start_date = 363 /\ end_date = 366
  /\ neighborhood = None /\ flt = DefaultFilters
  /\ exclude_abnormal = TRUE /\ use_mock_data = FALSE
  /\ data \in Batches
  /\ df = <<>>
  /\ num_records = 0 /\ iter = 0
  /\ rows = <<>> /\ idx = 1
  /\ playwright = "none" /\ browser = "none" /\ close_called = FALSE
  /\ failed_at = <<>> /\ raised = "none"
  /\ pc = "outlier"

ApplyOutlier ==
  /\ pc = "outlier"
  /\ df' = OutlierFilter(data)
  /\ pc' = "outlier_done"
  /\ UNCHANGED <<args, data, mock, live, raised>>

NextOutlier == ApplyOutlier

SpecOutlier == InitOutlier /\ [][NextOutlier]_vars

\* ----------------------------------------------------------------- claims
Returned == pc = "returned"
DateOf(r) == to_datetime(r.Date)
UnknownNeighborhood ==
  /\ neighborhood # None
  /\ neighborhood # AllNeighborhoods
  /\ neighborhood \notin get_neighborhoods(city)

\* round(p / q), Python's round: to nearest, a tie to the even neighbour.
RoundDiv(p, q) ==
  LET fl == p \div q
      twice == 2 * (p % q)
  IN  IF twice < q THEN fl
      ELSE IF twice > q THEN fl + 1
      ELSE IF fl % 2 = 0 THEN fl ELSE fl + 1

\* C1: every returned batch, Synthetic or Live, is ordered by date
\* non-increasing: date(r[i]) >= date(r[i+1]) for adjacent records.
C1_DateNonIncreasing ==
  Returned => \A k \in 1..(Len(df) - 1) : DateOf(df[k]) >= DateOf(df[k + 1])

\* C2: a neighborhood that is specified, is not the "all" sentinel and is not in
\* the catalog of the city gives an empty batch, and neither generation nor
\* extraction is attempted: no record was built and no browser was launched.
C2_UnknownNeighborhoodEmpty ==
  (Returned /\ UnknownNeighborhood) =>
     (df = <<>> /\ data = <<>> /\ browser = "none")

\* C3, as stated: every returned record's Price/Sqm is round(Price / Sqm) of its
\* own emitted Price and Sqm, to nearest.
C3_PriceSqmRounded ==
  Returned => \A k \in 1..Len(df) :
     df[k].Sqm > 0 => df[k].PriceSqm = RoundDiv(df[k].Price, df[k].Sqm)

\* C3, amended: every returned record's Price/Sqm is the quotient of its emitted
\* Price by its emitted Sqm truncated to an integer, and 0 when Sqm is 0.
C3_PriceSqmTruncated ==
  Returned => \A k \in 1..Len(df) :
     df[k].PriceSqm = IF df[k].Sqm > 0 THEN df[k].Price \div df[k].Sqm ELSE 0

\* A returned batch holds a record sold at a share below 100% and a record, of a
\* whole share, whose quotient rounds up but is emitted truncated.
C3_Witness ==
  /\ Returned
  /\ \E k \in 1..Len(df) : df[k].Share < 100 /\ df[k].Price % df[k].Sqm # 0
  /\ \E k \in 1..Len(df) :
        /\ df[k].Share = 100 /\ df[k].Sqm > 0
        /\ df[k].PriceSqm # RoundDiv(df[k].Price, df[k].Sqm)

\* C4: no record with Sqm <= 0 is ever in a returned batch.
C4_SqmPositive ==
  Returned => \A k \in 1..Len(df) : df[k].Sqm > 0

\* C5: every returned record has rooms, floor and Sqm inside the requested
\* closed intervals, the default intervals included.
C5_InsideRequestedRanges ==
  Returned => \A k \in 1..Len(df) :
     /\ flt.min_rooms <= df[k].Rooms /\ df[k].Rooms <= flt.max_rooms
     /\ flt.min_floor <= df[k].Floor /\ df[k].Floor <= flt.max_floor
     /\ flt.min_sqm <= df[k].Sqm /\ df[k].Sqm <= flt.max_sqm

\* m - 2s <= x <= m + 2s for the mean m and the sample standard deviation s of xs
\* (more than one value), from the sums of the values and of their squares:
\* (n*x - S)^2 * (n - 1) <= 4 * n * (n * SUM x_i^2 - S^2).
SampleBand(x, xs) ==
  LET n == Len(xs)
      S == SumSeq(xs)
      Q == SumSeq([i \in 1..n |-> xs[i] * xs[i]])
  IN  (n * x - S) * (n * x - S) * (n - 1) <= 4 * n * (n * Q - S * S)

\* C6, as stated: with excludeAbnormal, every record of a returned batch of more
\* than one record lies within two standard deviations of the mean of the
\* returned batch itself (filtering it again removes nothing).
C6_WithinOwnBand ==
  (pc = "outlier_done" /\ Len(df) > 1) =>
     \A k \in 1..Len(df) : SampleBand(df[k].PriceSqm, Column(df))

\* C6, amended: every record of the returned batch lies within two standard
\* deviations of the mean of the batch that entered the outlier step, and every
\* record of that batch that does is returned, in order.
C6_WithinInputBand ==
  pc = "outlier_done" =>
     df = SelectSeq(data, LAMBDA r : Len(data) > 1 /\ SampleBand(r.PriceSqm, Column(data)))

\* The step removed a record and left several, one of them outside the band of
\* what is left.
C6_Witness ==
  /\ pc = "outlier_done"
  /\ 1 < Len(df) /\ Len(df) < Len(data)
  /\ \E k \in 1..Len(df) : ~SampleBand(df[k].PriceSqm, Column(df))

\* The steps C7 and C8 name: the ones after the launch.
InnerSteps ==
  {InteractSteps[k] : k \in 1..Len(InteractSteps)} \cup {"query_rows", "row_cells"}

\* C7: once the browser has been launched, browser.close() has been awaited
\* before fetch_nadlan_data returns, whether the extraction succeeded or a step
\* of it (the navigation, an interaction, a row) failed.
C7_BrowserClosedOnReturn ==
  (Returned /\ browser # "none"
     /\ (failed_at = <<>> \/ failed_at[1] \in InnerSteps \cup {"goto"}))
  => close_called

\* The items of the rows txts[1..n], parsed in order.
RECURSIVE ParsedPrefix(_, _, _)
ParsedPrefix(txts, n, c) ==
  IF n = 0 THEN <<>> ELSE ParseRow(ParsedPrefix(txts, n - 1, c), txts[n], c)

\* C8: when an interaction step or the reading of a row's cells fails, no
\* exception reaches the caller, and exactly the rows parsed before the failure
\* are filtered and returned.
C8_ParsedRowsSurviveFailure ==
  (failed_at # <<>> /\ failed_at[1] \in InnerSteps) =>
     /\ raised = "none"
     /\ pc \in {"inner_except", "close", "outer_except", "filter", "returned"}
     /\ data = ParsedPrefix(rows, idx - 1, city)
     /\ Returned => df = LiveFilter(ParsedPrefix(rows, idx - 1, city), flt, exclude_abnormal)

\* The cells of the second of two rows could not be read; the first row was
\* parsed and is returned.
C8_Witness ==
  /\ Returned
  /\ failed_at = <<"row_cells">>
  /\ Len(rows) = 2 /\ idx = 2
  /\ Len(df) = 1

C9_Scenario ==
  /\ use_mock_data
  /\ start_date <= end_date
  /\ neighborhood \in {None, AllNeighborhoods}
  /\ flt = DefaultFilters
  /\ ~exclude_abnormal

\* C9: Synthetic, start <= end, no neighborhood or the "all" sentinel, default
\* ranges, excludeAbnormal off: the call returns a non-empty batch whose every
\* record has start <= date <= end and the requested city.
C9_SyntheticScenario ==
  C9_Scenario =>
     /\ raised = "none"
     /\ Returned =>
          /\ Len(df) > 0
          /\ \A k \in 1..Len(df) :
                /\ start_date <= DateOf(df[k]) /\ DateOf(df[k]) <= end_date
                /\ df[k].City = city

\* A batch over several days holds a record of the first day and one of the last.
C9_Witness ==
  /\ C9_Scenario /\ Returned
  /\ start_date < end_date
  /\ \E j, k \in 1..Len(df) : DateOf(df[j]) = start_date /\ DateOf(df[k]) = end_date

\* The batch that reaches the outlier step: the generator's accepted records, or
\* the live records left by the range filters.
BeforeOutlier == IF use_mock_data THEN data ELSE LiveRangeFilter(data, flt)

\* C10: with excludeAbnormal set, a batch of exactly one record at the outlier
\* step is returned unchanged, and an empty one stays empty.
C10_SingleRecordKept ==
  (Returned /\ exclude_abnormal /\ Len(BeforeOutlier) <= 1) => df = BeforeOutlier
====
